---- MODULE Spec2Model ----
(***************************************************************************)
(* Model of the trivia API of backend/flaskr/__init__.py: the question     *)
(* table, the catalog handlers (list, search, list by category, create,    *)
(* delete) and the quiz handler (/play) together with a caller that plays  *)
(* a quiz session.                                                         *)
(***************************************************************************)
EXTENDS Integers, Sequences, FiniteSets, TLC

VARIABLES questions, nextId, categories, resp, sess

vars == <<questions, nextId, categories, resp, sess>>

(* ------------------------------ bounds --------------------------------- *)
MaxId == 3          \* identifiers the question table hands out: 1..MaxId
MaxPage == 2        \* page arguments tried: 0..MaxPage
MaxPrev == 2        \* longest previous_questions list of a free /play call

(* --------------------------- program constants ------------------------- *)
QUESTIONS_PER_PAGE == 10

(* ------------------------- JSON / Python values ------------------------ *)
Missing == [t |-> "missing", v |-> 0]       \* key not in the dict
None == [t |-> "none", v |-> 0]
JInt(n) == [t |-> "int", v |-> n]
JStr(s) == [t |-> "str", v |-> s]
JList(s) == [t |-> "list", v |-> s]
JDict(d) == [t |-> "dict", v |-> d]
False == [t |-> "bool", v |-> FALSE]

Range(s) == {s[i] : i \in 1..Len(s)}
Min(a, b) == IF a < b THEN a ELSE b
Max(a, b) == IF a > b THEN a ELSE b

\* dict.get(key, default): the default only when the key is not there
get(d, key, default) == IF d[key].t = "missing" THEN default ELSE d[key]

\* Python truth value of a JSON value
Truthy(x) ==
    CASE x.t = "none" -> FALSE
      [] x.t = "missing" -> FALSE
      [] x.t = "int" -> x.v # 0
      [] x.t = "str" -> Len(x.v) > 0
      [] x.t = "list" -> Len(x.v) > 0
      [] x.t = "bool" -> x.v
      [] OTHER -> TRUE

\* all([...]) : every element is truthy
all_no_difficulty(xs) == \A i \in 1..(Len(xs) - 1) : Truthy(xs[i])
all(xs) == \A i \in 1..Len(xs) : Truthy(xs[i])

\* seq[start:end] with Python's clamping of negative and oversized indices
PySlice(s, start, end) ==
    LET n == Len(s)
        lo == IF start < 0 THEN Max(n + start, 0) ELSE Min(start, n)
        hi == IF end < 0 THEN Max(n + end, 0) ELSE Min(end, n)
    IN  IF lo < hi THEN SubSeq(s, lo + 1, hi) ELSE <<>>

\* request.args.get('page', 1, type=int)
args_get_page(pageArg) == IF pageArg.t = "int" THEN pageArg.v ELSE 1

(* ------------------------------ storage -------------------------------- *)
\* Question.format(): the record as a plain dict
format(q) == [id |-> q.id, question |-> q.question, answer |-> q.answer,
              category |-> q.category, difficulty |-> q.difficulty]

Ids(qs) == {qs[i].id : i \in 1..Len(qs)}

\* Question.insert(): add the row, the table assigns the next identifier
insert(qs, id, question, answer, category, difficulty) ==
    Append(qs, [id |-> id, question |-> question, answer |-> answer,
                category |-> category, difficulty |-> difficulty])

\* Question.delete(): remove the row
delete(qs, id) == SelectSeq(qs, LAMBDA q : q.id # id)

\* Question.query.filter(Question.id == question_id).one_or_none()
one_or_none(qs, id) ==
    LET hit == SelectSeq(qs, LAMBDA q : q.id = id)
    IN  IF Len(hit) = 1 THEN JDict(hit[1]) ELSE None

\* Category.query.get(id) / filter(category_id == Category.id).one_or_none()
Category_get(id) ==
    IF id.t = "int" /\ id.v \in DOMAIN categories THEN JDict([id |-> id.v]) ELSE None

\* {cat.id: cat.type for cat in Category.query.all()}
category_dict == categories

(* ---------------------------- pagination ------------------------------- *)
paginate_questions(pageArg, selection) ==
    LET page == args_get_page(pageArg)
        start == (page - 1) * QUESTIONS_PER_PAGE
        end == start + QUESTIONS_PER_PAGE
        formatted_questions == [i \in 1..Len(selection) |-> format(selection[i])]
    IN  PySlice(formatted_questions, start, end)

(* ------------------------------ search --------------------------------- *)
LowerChar(c) == CASE c = "N" -> "n" [] c = "S" -> "s" [] OTHER -> c
lower(s) == [i \in 1..Len(s) |-> LowerChar(s[i])]

\* SQL LIKE: % matches any run of characters, _ any one character
RECURSIVE like(_, _)
like(s, p) ==
    IF p = <<>> THEN s = <<>>
    ELSE IF Head(p) = "%"
         THEN like(s, Tail(p)) \/ (s # <<>> /\ like(Tail(s), p))
         ELSE s # <<>> /\ (Head(p) = "_" \/ Head(p) = Head(s))
                       /\ like(Tail(s), Tail(p))

ilike(s, p) == like(lower(s), lower(p))

\* the default of body.get('searchTerm', 'None'): the four-letter string
DefaultSearchTerm == JStr(<<"N", "o", "n", "e">>)

(* ------------------------------ inputs --------------------------------- *)
QText1 == <<"n", "o", "n", "e", "t">>
QText2 == <<"S", "k", "y">>
AText == <<"a">>

PageArgs == {Missing} \cup {JInt(p) : p \in 0..MaxPage}
QuestionIds == 0..(MaxId + 1)
CategoryIds == 1..3                      \* 3 names no category

\* bodies with all four fields filled in
ValidBodies ==
    {JDict([question |-> JStr(qc[1]), answer |-> JStr(AText),
            category |-> JInt(qc[2]), difficulty |-> JInt(1)]) :
        qc \in ({QText1} \X CategoryIds) \cup {<<QText2, 1>>}}

BaseBody == [question |-> JStr(QText1), answer |-> JStr(AText),
             category |-> JInt(1), difficulty |-> JInt(1)]

\* bodies with a field left out, null, empty or zero
InvalidBodies ==
    {JDict([BaseBody EXCEPT !.question = x]) : x \in {Missing, JStr(<<>>)}}
        \cup {JDict([BaseBody EXCEPT !.answer = x]) : x \in {None, JStr(<<>>)}}
        \cup {JDict([BaseBody EXCEPT !.category = x]) : x \in {Missing, None}}
        \cup {JDict([BaseBody EXCEPT !.difficulty = x]) : x \in {Missing, JInt(0)}}
        \cup {JDict([BaseBody EXCEPT !.question = JStr(<<>>), !.answer = JStr(<<>>)])}

CreateBodies == {None} \cup ValidBodies \cup InvalidBodies

SearchTerms == {Missing, None, JStr(<<>>), JStr(<<"s", "k">>), JStr(<<"o", "_", "e">>)}
SearchBodies == {None} \cup {JDict([searchTerm |-> s]) : s \in SearchTerms}

NoSession == [state |-> "none", scope |-> 0, excluded |-> <<>>]

(* ------------------------------- Init ---------------------------------- *)
Init ==
    /\ questions = <<>>
    /\ nextId = 1
    /\ categories = (1 :> "Science" @@ 2 :> "Art")
    /\ resp = [op |-> "init", status |-> 0]
    /\ sess = NoSession

(* --------------------------- catalog handlers -------------------------- *)
\* GET /questions?page=
get_questions(pageArg) ==
    LET page == args_get_page(pageArg)
    IN  /\ resp' =
             IF page > (Len(questions) \div 10) + 1
             THEN [op |-> "get_questions", page |-> page, status |-> 404]
             ELSE [op |-> "get_questions", page |-> page, status |-> 200,
                   questions |-> paginate_questions(pageArg, questions),
                   total_questions |-> Len(questions),
                   current_category |-> None,
                   categories |-> category_dict]
        /\ UNCHANGED <<questions, nextId, categories, sess>>

\* DELETE /questions/<int:question_id>
delete_questions_always_ok(question_id) ==
    /\ questions' = delete(questions, question_id)
    /\ resp' = [op |-> "delete_questions", question_id |-> question_id,
                status |-> 200, deleted |-> question_id]
    /\ UNCHANGED <<nextId, categories, sess>>

delete_questions(question_id) ==
    LET question == one_or_none(questions, question_id)
    IN  /\ IF question.t = "none"
           THEN /\ resp' = [op |-> "delete_questions", question_id |-> question_id,
                            status |-> 422]
                /\ UNCHANGED questions
           ELSE /\ questions' = delete(questions, question_id)
                /\ resp' = [op |-> "delete_questions", question_id |-> question_id,
                            status |-> 200, deleted |-> question_id]
        /\ UNCHANGED <<nextId, categories, sess>>

\* POST /questions/add
create_question(body) ==
    /\ IF body.t # "dict"
       THEN /\ resp' = [op |-> "create_question", body |-> body, status |-> 422]
            /\ UNCHANGED <<questions, nextId>>
       ELSE LET new_question == get(body.v, "question", None)
                new_answer == get(body.v, "answer", None)
                new_category == get(body.v, "category", None)
                new_difficulty == get(body.v, "difficulty", None)
            IN  IF all(<<new_question, new_answer, new_category, new_difficulty>>)
                THEN /\ nextId <= MaxId
                     /\ questions' = insert(questions, nextId, new_question.v,
                                            new_answer.v, new_category.v,
                                            new_difficulty.v)
                     /\ nextId' = nextId + 1
                     /\ resp' = [op |-> "create_question", body |-> body,
                                 status |-> 200, created |-> nextId]
                ELSE /\ resp' = [op |-> "create_question", body |-> body,
                                 status |-> 422]
                     /\ UNCHANGED <<questions, nextId>>
    /\ UNCHANGED <<categories, sess>>

\* POST /questions/search
search_questions(body, pageArg) ==
    /\ IF body.t # "dict"
       THEN \* body.get on None: unhandled, answered by the 500 handler
            resp' = [op |-> "search_questions", body |-> body, status |-> 405,
                     error |-> 500]
       ELSE LET search == get(body.v, "searchTerm", DefaultSearchTerm)
            IN  IF Truthy(search)
                THEN LET pattern == <<"%">> \o search.v \o <<"%">>
                         selection == SelectSeq(questions,
                                         LAMBDA q : ilike(q.question, pattern))
                     IN  resp' = [op |-> "search_questions", body |-> body,
                                  status |-> 200,
                                  questions |-> paginate_questions(pageArg, selection),
                                  total_questions |-> Len(selection)]
                ELSE resp' = [op |-> "search_questions", body |-> body,
                              status |-> 404]
    /\ UNCHANGED <<questions, nextId, categories, sess>>

\* GET /categories/<int:category_id>/questions?page=
get_category_questions(category_id, pageArg) ==
    LET category == Category_get(JInt(category_id))
        qs == SelectSeq(questions, LAMBDA q : category_id = q.category)
        req == [category_id |-> category_id, page |-> args_get_page(pageArg)]
    IN  /\ resp' =
             IF category.t = "none"
             THEN [op |-> "get_category_questions", req |-> req, status |-> 422]
             ELSE IF Len(qs) = 0
             THEN [op |-> "get_category_questions", req |-> req, status |-> 404]
             ELSE LET current_questions == paginate_questions(pageArg, qs)
                  IN  [op |-> "get_category_questions", req |-> req,
                       status |-> 200,
                       questions |-> current_questions,
                       total_questions |-> Len(current_questions),
                       current_category |-> category_id]
        /\ UNCHANGED <<questions, nextId, categories, sess>>

Next ==
    \/ \E pageArg \in PageArgs : get_questions(pageArg)
    \/ \E question_id \in QuestionIds : delete_questions(question_id)
    \/ \E body \in CreateBodies : create_question(body)
    \/ \E body \in SearchBodies, pageArg \in PageArgs : search_questions(body, pageArg)
    \/ \E category_id \in CategoryIds, pageArg \in PageArgs :
          get_category_questions(category_id, pageArg)

Spec == Init /\ [][Next]_vars

(* ------------------------------- quiz ---------------------------------- *)
Error == [t |-> "error", v |-> 0]           \* an exception caught by the handler

\* Question.id.notin_(previous_questions)
notin_(id, previous_questions) == id \notin Range(previous_questions)

\* select_questions without the notin_ filter
select_questions_no_filter(category_id, category, previous_questions) ==
    IF category_id.t # "int" THEN Error
    ELSE IF previous_questions.t # "list" THEN Error
    ELSE IF category_id.v > 0
    THEN IF category.t = "none" THEN Error
         ELSE JList(SelectSeq(questions, LAMBDA q : q.category = category.v.id))
    ELSE JList(questions)

\* select_questions filtering on the request's id instead of category.id
select_questions_by_id(category_id, category, previous_questions) ==
    IF category_id.t # "int" THEN Error
    ELSE IF previous_questions.t # "list" THEN Error
    ELSE IF category_id.v > 0
    THEN JList(SelectSeq(questions,
             LAMBDA q : notin_(q.id, previous_questions.v)
                        /\ q.category = category_id.v))
    ELSE JList(SelectSeq(questions,
             LAMBDA q : notin_(q.id, previous_questions.v)))

\* the four queries of post_quizzes, chosen by int(category_id) > 0 and
\* len(previous_questions) > 0
select_questions(category_id, category, previous_questions) ==
    IF category_id.t # "int" THEN Error                 \* int(None)
    ELSE IF previous_questions.t # "list" THEN Error    \* len(None)
    ELSE IF category_id.v > 0
    THEN IF category.t = "none" THEN Error              \* category.id on None
         ELSE IF Len(previous_questions.v) > 0
         THEN JList(SelectSeq(questions,
                  LAMBDA q : notin_(q.id, previous_questions.v)
                             /\ q.category = category.v.id))
         ELSE JList(SelectSeq(questions, LAMBDA q : q.category = category.v.id))
    ELSE IF Len(previous_questions.v) > 0
         THEN JList(SelectSeq(questions,
                  LAMBDA q : notin_(q.id, previous_questions.v)))
         ELSE JList(questions)

\* draw_question with the threshold max >= 0
draw_question_nonempty(qs) ==
    LET max == Len(qs) - 1
    IN  IF max >= 0 THEN {JDict(format(qs[i + 1])) : i \in 0..max} ELSE {False}

\* questions[random.randint(0, max)].format() if max > 0 else False
draw_question(qs) ==
    LET max == Len(qs) - 1
    IN  IF max > 0 THEN {JDict(format(qs[i + 1])) : i \in 0..max} ELSE {False}

\* the responses POST /play can give to a body (one per random choice)
post_quizzes_responses(body) ==
    IF body.t # "dict"
    THEN {[op |-> "post_quizzes", body |-> body, status |-> 422]}
    ELSE LET quiz_category == get(body.v, "quiz_category", None)
         IN  IF quiz_category.t # "dict"
             THEN {[op |-> "post_quizzes", body |-> body, status |-> 422]}
             ELSE LET category_id == get(quiz_category.v, "id", None)
                      category == Category_get(category_id)
                      previous_questions ==
                          get(body.v, "previous_questions", JList(<<>>))
                      selected == select_questions(category_id, category,
                                                   previous_questions)
                  IN  IF selected.t = "error"
                      THEN {[op |-> "post_quizzes", body |-> body, status |-> 422]}
                      ELSE {[op |-> "post_quizzes", body |-> body, status |-> 200,
                             question |-> question] :
                                question \in draw_question(selected.v)}

\* POST /play
post_quizzes(body) ==
    /\ \E r \in post_quizzes_responses(body) : resp' = r
    /\ UNCHANGED <<questions, nextId, categories, sess>>

(* ------------------------- the quiz caller ----------------------------- *)
PlayBody(scope, excluded) ==
    JDict([quiz_category |-> JDict([id |-> JInt(scope)]),
           previous_questions |-> JList(excluded)])

\* the caller's bookkeeping after a response to a call that sent `sent`
AfterResponse(r, sent) ==
    IF r.status # 200 THEN [sess EXCEPT !.state = "Error"]
    ELSE IF r.question.t = "dict"
    THEN [sess EXCEPT !.state = "Active",
                      !.excluded = Append(sent, r.question.v.id)]
    ELSE [sess EXCEPT !.state = "Exhausted"]

\* the next question of a running session
play_next ==
    /\ sess.state = "Active"
    /\ \E r \in post_quizzes_responses(PlayBody(sess.scope, sess.excluded)) :
          /\ resp' = r
          /\ sess' = AfterResponse(r, sess.excluded)
    /\ UNCHANGED <<questions, nextId, categories>>

\* asking again after Exhausted, with the same or a larger exclusion list
play_again(extra) ==
    /\ sess.state = "Exhausted"
    /\ \E r \in post_quizzes_responses(PlayBody(sess.scope, sess.excluded \o extra)) :
          /\ resp' = r
          /\ sess' = AfterResponse(r, sess.excluded \o extra)
    /\ UNCHANGED <<questions, nextId, categories>>

(* --------------------- banks a quiz can run over ----------------------- *)
RECURSIVE SortedIds(_)
SortedIds(S) ==
    IF S = {} THEN <<>>
    ELSE LET m == CHOOSE x \in S : \A y \in S : x <= y
         IN  <<m>> \o SortedIds(S \ {m})

\* the table after creates and deletes: ascending identifiers, any categories
BankOf(f) ==
    LET ids == SortedIds(DOMAIN f)
    IN  [i \in 1..Len(ids) |->
            [id |-> ids[i], question |-> QText1, answer |-> AText,
             category |-> f[ids[i]], difficulty |-> 1]]

QuizBanks == UNION {{BankOf(f) : f \in [S -> CategoryIds]} : S \in SUBSET (1..MaxId)}

\* what a caller may add to its exclusion list when it asks again
ExtraIds == {<<>>} \cup {<<i>> : i \in 1..MaxId}

QuizCategories ==
    {Missing, JDict([id |-> Missing])}
        \cup {JDict([id |-> JInt(c)]) : c \in {-1, 0, 1, 3}}

\* exclusion lists of a free call: up to MaxPrev distinct identifiers
PrevLists == {SortedIds(S) : S \in {T \in SUBSET (1..MaxId) : Cardinality(T) <= MaxPrev}}
PreviousQuestions == {Missing, None} \cup {JList(s) : s \in PrevLists}
PlayBodies ==
    {None} \cup
    {JDict([quiz_category |-> c, previous_questions |-> p]) :
        c \in QuizCategories, p \in PreviousQuestions}

QuizInit ==
    /\ questions \in QuizBanks
    /\ nextId = MaxId + 1
    /\ categories = (1 :> "Science" @@ 2 :> "Art")
    /\ resp = [op |-> "init", status |-> 0]
    /\ sess = NoSession

QuizNext == \E body \in PlayBodies : post_quizzes(body)

QuizSpec == QuizInit /\ [][QuizNext]_vars

SessionInit ==
    /\ questions \in QuizBanks
    /\ nextId = MaxId + 1
    /\ categories = (1 :> "Science" @@ 2 :> "Art")
    /\ resp = [op |-> "init", status |-> 0]
    /\ \E scope \in 0..3 :
          sess = [state |-> "Active", scope |-> scope, excluded |-> <<>>]

SessionNext ==
    \/ play_next
    \/ \E extra \in ExtraIds : play_again(extra)

SessionSpec == SessionInit /\ [][SessionNext]_vars /\ WF_vars(play_next)

(* ============================== claims ================================= *)
Empty(x) == x.t \in {"missing", "none"} \/ (x.t = "str" /\ x.v = <<>>)

HasEmptyField(body) ==
    \/ body.t # "dict"
    \/ \E k \in {"question", "answer", "category", "difficulty"} : Empty(body.v[k])

\* C1: list_questions(page), page >= 1, succeeds only when a question exists
\* at offset (page - 1) * 10, and fails with NotFound when none does.
C1_ListNotFoundPastEnd ==
    (resp.op = "get_questions" /\ resp.page >= 1) =>
        LET offset == (resp.page - 1) * QUESTIONS_PER_PAGE
        IN  /\ resp.status = 200 => (offset < Len(questions) /\ resp.questions # <<>>)
            /\ offset >= Len(questions) => resp.status = 404

\* C2: search_questions fails with NotFound when the search term is the
\* empty string and when it is absent from the body.
C2_SearchEmptyOrAbsentNotFound ==
    (resp.op = "search_questions" /\ resp.body.t = "dict"
        /\ (resp.body.v.searchTerm.t = "missing"
            \/ (resp.body.v.searchTerm.t = "str"
                /\ resp.body.v.searchTerm.v = <<>>)))
    => resp.status = 404

\* C3: a successful list_by_category returns only questions of the category,
\* at most 10 of them, and total_questions is the number of questions in the
\* category whatever the page.
C3_CategoryListingTotals ==
    (resp.op = "get_category_questions" /\ resp.status = 200) =>
        /\ \A i \in 1..Len(resp.questions) :
              resp.questions[i].category = resp.req.category_id
        /\ Len(resp.questions) <= 10
        /\ resp.total_questions =
              Cardinality({i \in 1..Len(questions) :
                              questions[i].category = resp.req.category_id})

\* C4: create_question with a required field missing or empty fails with
\* Unprocessable and leaves the stored questions as they were.
C4_CreateValidatesBeforeInsert ==
    [][(resp'.op = "create_question" /\ HasEmptyField(resp'.body))
          => (resp'.status = 422 /\ questions' = questions)]_vars

C4_Witness ==
    /\ resp.op = "create_question"
    /\ resp.body.t = "dict"
    /\ HasEmptyField(resp.body)
    /\ resp.status = 422
    /\ Len(questions) > 0

\* C5: delete_question(id) succeeds exactly once for a created id: it removes
\* the record and returns the id; a delete of an id not in the store (so every
\* later delete of the same id, identifiers never being handed out twice) fails
\* with Unprocessable and leaves the stored questions unchanged.
C5_DeleteSucceedsOnce ==
    [][/\ resp'.op = "delete_questions" =>
            IF resp'.question_id \in Ids(questions)
            THEN /\ resp'.status = 200
                 /\ resp'.deleted = resp'.question_id
                 /\ Ids(questions') = Ids(questions) \ {resp'.question_id}
            ELSE /\ resp'.status = 422
                 /\ questions' = questions
       /\ \A i \in Ids(questions) : i < nextId
       /\ \A i \in Ids(questions') \ Ids(questions) : i >= nextId /\ i < nextId'
      ]_vars

C5_Witness ==
    /\ resp.op = "delete_questions"
    /\ resp.status = 422
    /\ resp.question_id >= 1
    /\ resp.question_id < nextId
    /\ Len(questions) > 0

\* C6: in a session that appends every returned id to excluded_ids, a
\* returned question is not in the excluded_ids that were sent and lies in
\* the scope; no question is served twice.
C6_NoRepeatInSession ==
    /\ \A i, j \in 1..Len(sess.excluded) :
          i # j => sess.excluded[i] # sess.excluded[j]
    /\ (resp.op = "post_quizzes" /\ resp.status = 200 /\ resp.question.t = "dict") =>
          /\ resp.question.v.id \notin Range(resp.body.v.previous_questions.v)
          /\ resp.question.v.id \in Ids(questions)
          /\ sess.scope > 0 => resp.question.v.category = sess.scope

C6_Witness ==
    /\ resp.op = "post_quizzes"
    /\ resp.status = 200
    /\ resp.question.t = "dict"
    /\ sess.scope > 0
    /\ Len(sess.excluded) >= 2

ValidScope(body) ==
    /\ body.t = "dict"
    /\ body.v.quiz_category.t = "dict"
    /\ body.v.quiz_category.v.id.t = "int"
    /\ \/ body.v.quiz_category.v.id.v <= 0
       \/ body.v.quiz_category.v.id.v \in DOMAIN categories
    /\ body.v.previous_questions.t \in {"missing", "list"}

Eligible(body) ==
    LET scope == body.v.quiz_category.v.id.v
        excluded == IF body.v.previous_questions.t = "list"
                    THEN Range(body.v.previous_questions.v) ELSE {}
    IN  {i \in 1..Len(questions) :
            /\ scope > 0 => questions[i].category = scope
            /\ questions[i].id \notin excluded}

\* C7: next_question draws a question iff at least two eligible candidates
\* remain; with one or none it answers successfully with the payload false.
C7_DrawNeedsTwoCandidates ==
    (resp.op = "post_quizzes" /\ ValidScope(resp.body)) =>
        /\ resp.status = 200
        /\ resp.question.t = "dict" <=> Cardinality(Eligible(resp.body)) >= 2
        /\ Cardinality(Eligible(resp.body)) <= 1 =>
              (resp.question.t = "bool" /\ resp.question.v = FALSE)

C7_Witness ==
    /\ resp.op = "post_quizzes"
    /\ ValidScope(resp.body)
    /\ Cardinality(Eligible(resp.body)) = 1
    /\ resp.status = 200
    /\ resp.question.t = "bool"

MalformedScope(body) ==
    \/ body.t # "dict"
    \/ body.v.quiz_category.t # "dict"
    \/ /\ body.v.quiz_category.v.id.t = "int"
       /\ body.v.quiz_category.v.id.v > 0
       /\ body.v.quiz_category.v.id.v \notin DOMAIN categories

\* C8: next_question fails with Unprocessable when the request has no quiz
\* category or names a category (> 0) that does not exist.
C8_MalformedScopeUnprocessable ==
    (resp.op = "post_quizzes" /\ MalformedScope(resp.body)) => resp.status = 422

C8_Witness ==
    /\ resp.op = "post_quizzes"
    /\ resp.body.t = "dict"
    /\ resp.body.v.quiz_category.t = "dict"
    /\ resp.body.v.quiz_category.v.id.t = "int"
    /\ resp.body.v.quiz_category.v.id.v = 3
    /\ resp.status = 422
    /\ Cardinality({i \in 1..Len(questions) : questions[i].category = 3}) >= 2

\* C9: every stored question's category refers to an existing Category.
C9_CategoryReferenceExists ==
    \A i \in 1..Len(questions) : questions[i].category \in DOMAIN categories

ValidSession == sess.scope <= 0 \/ sess.scope \in DOMAIN categories

InScope ==
    {i \in 1..Len(questions) : sess.scope > 0 => questions[i].category = sess.scope}

Exhausted == sess.state = "Exhausted"

\* C10: over an unmodified bank with N questions in scope a session reaches
\* Exhausted, after exactly max(N - 1, 0) draws, and once Exhausted every
\* later call with the same or a larger exclusion list is Exhausted too.
C10_SessionTerminates ==
    /\ [](Exhausted => Len(sess.excluded) = Max(Cardinality(InScope) - 1, 0))
    /\ [][Exhausted => (/\ sess'.state = "Exhausted"
                        /\ resp'.status = 200
                        /\ resp'.question.t = "bool")]_vars
    /\ ValidSession ~> Exhausted

C10_Witness ==
    /\ Exhausted
    /\ Len(sess.excluded) = 2
    /\ resp.op = "post_quizzes"
    /\ Len(resp.body.v.previous_questions.v) > Len(sess.excluded)

====
